---- MODULE Spec2Model ----
(***************************************************************************)
(* Model of src/SSHClient.py: class SSHClient, a facade over an SSH        *)
(* transport (paramiko.SSHClient, field ssh_client) and a file-copy        *)
(* channel (scp.SCPClient, field scp_client).                              *)
(*                                                                         *)
(* The two collaborators are outside the repository.  They are modelled as *)
(* two independent resources with an open/closed status each, and every    *)
(* call on them either returns or raises, chosen by the environment:       *)
(*   - connect() that raises leaves the transport closed;                  *)
(*   - close() that returns leaves the resource closed;                    *)
(*   - close() that raises leaves the resource either as it was or closed; *)
(*   - a transfer or a command on a closed transport raises.               *)
(* The constructor and the destructor are modelled statement by statement, *)
(* so the states between two statements are states of the model.           *)
(***************************************************************************)
EXTENDS Integers, Sequences, FiniteSets, TLC

\* ---------------------------------------------------------------- bounds
\* Number of times __del__ may run on the one session object.
MaxDisposals == 2

\* ------------------------------------------------------------- constants
\* Default of the port parameter of __init__.
DefaultPort == 22

Hosts == {"alpha", "beta"}
Ports == {DefaultPort, DefaultPort + 1}
Users == {"root", "admin"}
Passwords == {"root", "secret"}

\* Exceptions the collaborators (and attribute access on None) can raise.
\* All of them derive from Exception.
ExceptionClasses ==
    {"ConnectionError", "TransferError", "InvalidArgument", "ExecutionError",
     "SSHException", "SCPException", "AttributeError"}

VARIABLES
    host, port, user, password,  \* instance fields set by __init__
    ssh_client,                  \* "None" or "obj": the paramiko.SSHClient handle
    scp_client,                  \* "None" or "obj": the SCPClient handle
    ssh_open,                    \* status of the transport resource
    scp_open,                    \* status of the copy-channel resource
    pc,                          \* position inside __init__ / __del__, or "idle"
    accepted,                    \* verdict of connect(): "pending", "yes", "no"
    bound,                       \* verdict of SCPClient(...): "pending", "yes", "no"
    ctorResult,                  \* what __init__ delivered: "none", "ok", or an exception
    exc,                         \* exception raised inside the try block of __del__
    delResult,                   \* how the last __del__ ended: "none", "normal", "raised"
    delCalls,                    \* close() calls made by the running / last __del__
    disposals,                   \* number of completed __del__ runs
    log,                         \* records handed to logger.info, in order
    last                         \* the last get / put / execute call and its outcome

vars == <<host, port, user, password, ssh_client, scp_client, ssh_open,
          scp_open, pc, accepted, bound, ctorResult, exc, delResult,
          delCalls, disposals, log, last>>

fields == <<host, port, user, password>>
handles == <<ssh_client, scp_client>>
status == <<ssh_open, scp_open>>

\* ------------------------------------------------------------ log records
SourceTag == [kind |-> "source", text |-> "SSHClient", host |-> "-", port |-> 0]
Established(h, p) == [kind |-> "established", text |-> "-", host |-> h, port |-> p]
Closed(h) == [kind |-> "closed", text |-> "-", host |-> h, port |-> 0]
ErrorText(e) == [kind |-> "error", text |-> e, host |-> "-", port |-> 0]

\* A variant of Log that emits the message only.
Log_MessageOnly(l, data) == Append(l, data)

\* SSHClient.__log: two logger.info calls, the source tag and then the data.
Log(l, data) == Append(Append(l, SourceTag), data)

\* ------------------------------------------------------ exception handling
\* A variant of the handler that only catches the library's own errors.
Catches_LibraryOnly(e) == e \in {"SSHException", "SCPException"}

\* "except Exception" in __del__.
Catches(e) == e \in ExceptionClasses

\* --------------------------------------------------- collaborator outcomes
\* close() on a resource whose status is isOpen.
CloseOutcomes(isOpen) ==
    {[raised |-> FALSE, open |-> FALSE]}
      \cup {[raised |-> TRUE, open |-> o] : o \in {isOpen, FALSE}}

\* scp_client.get(...)
DownloadOutcomes ==
    IF ssh_open /\ scp_open THEN {"ok", "TransferError"} ELSE {"TransferError"}

\* scp_client.put(...)
UploadOutcomes ==
    IF ssh_open /\ scp_open THEN {"ok", "TransferError", "InvalidArgument"}
    ELSE {"TransferError"}

\* ssh_client.exec_command(...)
ExecOutcomes ==
    IF ssh_open THEN {"ok", "ExecutionError"} ELSE {"ExecutionError"}

NoCall ==
    [op |-> "none", calls |-> 0, collab |-> "none", result |-> "none",
     afterDispose |-> FALSE, tick |-> 0]

\* ------------------------------------------------------------------- Init
\* The state on entry to the connect call of __init__: the four fields are
\* assigned, ssh_client is a fresh unconnected client, scp_client is None.
Init ==
    /\ host \in Hosts
    /\ port \in Ports
    /\ user \in Users
    /\ password \in Passwords
    /\ ssh_client = "obj"
    /\ scp_client = "None"
    /\ ssh_open = FALSE
    /\ scp_open = FALSE
    /\ pc = "connect"
    /\ accepted = "pending"
    /\ bound = "pending"
    /\ ctorResult = "none"
    /\ exc = "none"
    /\ delResult = "none"
    /\ delCalls = <<>>
    /\ disposals = 0
    /\ log = <<>>
    /\ last = NoCall

\* ------------------------------------------------------------ construction
\* A variant of the connect step that swallows the failure and goes on.
InitConnect_Swallow ==
    /\ pc = "connect"
    /\ \E ok \in BOOLEAN :
         /\ accepted' = IF ok THEN "yes" ELSE "no"
         /\ ssh_open' = ok
         /\ pc' = "bind"
         /\ UNCHANGED ctorResult
    /\ UNCHANGED <<fields, handles, scp_open, bound, exc, delResult, delCalls,
                   disposals, log, last>>

\* self.ssh_client.connect(host, port, user, password)
InitConnect ==
    /\ pc = "connect"
    /\ \E ok \in BOOLEAN :
         IF ok
         THEN /\ accepted' = "yes"
              /\ ssh_open' = TRUE
              /\ pc' = "bind"
              /\ UNCHANGED ctorResult
         ELSE /\ accepted' = "no"
              /\ ssh_open' = FALSE
              /\ pc' = "idle"
              /\ ctorResult' = "ConnectionError"
    /\ UNCHANGED <<fields, handles, scp_open, bound, exc, delResult, delCalls,
                   disposals, log, last>>

\* self.scp_client = SCPClient(self.ssh_client.get_transport())
\* A failure propagates as it is: nothing in __init__ catches it.
InitBind ==
    /\ pc = "bind"
    /\ \E ok \in BOOLEAN :
         IF ok
         THEN /\ bound' = "yes"
              /\ scp_client' = "obj"
              /\ scp_open' = TRUE
              /\ pc' = "log"
              /\ UNCHANGED ctorResult
         ELSE /\ bound' = "no"
              /\ UNCHANGED <<scp_client, scp_open>>
              /\ pc' = "idle"
              /\ ctorResult' = "ConnectionError"
    /\ UNCHANGED <<fields, ssh_client, ssh_open, accepted, exc, delResult,
                   delCalls, disposals, log, last>>

\* self.__log('Connection with %s host on %s port has been ...')
InitLog ==
    /\ pc = "log"
    /\ log' = Log(log, Established(host, port))
    /\ ctorResult' = "ok"
    /\ pc' = "idle"
    /\ UNCHANGED <<fields, handles, status, accepted, bound, exc, delResult,
                   delCalls, disposals, last>>

\* ---------------------------------------------------------------- disposal
\* A variant of the first close that is skipped when no copy channel exists.
DelCloseTransport_Guarded ==
    /\ pc = "idle"
    /\ disposals < MaxDisposals
    /\ delResult' = "none"
    /\ IF scp_client = "None"
       THEN /\ exc' = "AttributeError"
            /\ delCalls' = <<>>
            /\ pc' = "del_except"
            /\ UNCHANGED ssh_open
       ELSE \E o \in CloseOutcomes(ssh_open) :
              /\ ssh_open' = o.open
              /\ delCalls' = <<[call |-> "ssh.close", raised |-> o.raised]>>
              /\ exc' = IF o.raised THEN "SSHException" ELSE "none"
              /\ pc' = IF o.raised THEN "del_except" ELSE "del_scp"
    /\ UNCHANGED <<fields, handles, scp_open, accepted, bound, ctorResult,
                   disposals, log, last>>

\* __del__, first statement of the try block: self.ssh_client.close()
DelCloseTransport ==
    /\ pc = "idle"
    /\ disposals < MaxDisposals
    /\ delResult' = "none"
    /\ IF ssh_client = "None"
       THEN /\ exc' = "AttributeError"
            /\ delCalls' = <<>>
            /\ pc' = "del_except"
            /\ UNCHANGED ssh_open
       ELSE \E o \in CloseOutcomes(ssh_open) :
              /\ ssh_open' = o.open
              /\ delCalls' = <<[call |-> "ssh.close", raised |-> o.raised]>>
              /\ exc' = IF o.raised THEN "SSHException" ELSE "none"
              /\ pc' = IF o.raised THEN "del_except" ELSE "del_scp"
    /\ UNCHANGED <<fields, handles, scp_open, accepted, bound, ctorResult,
                   disposals, log, last>>

\* __del__, second statement of the try block: self.scp_client.close()
DelCloseCopy ==
    /\ pc = "del_scp"
    /\ IF scp_client = "None"
       THEN /\ exc' = "AttributeError"
            /\ pc' = "del_except"
            /\ UNCHANGED <<scp_open, delCalls>>
       ELSE \E o \in CloseOutcomes(scp_open) :
              /\ scp_open' = o.open
              /\ delCalls' = Append(delCalls,
                                    [call |-> "scp.close", raised |-> o.raised])
              /\ exc' = IF o.raised THEN "SCPException" ELSE "none"
              /\ pc' = IF o.raised THEN "del_except" ELSE "del_log"
    /\ UNCHANGED <<fields, handles, ssh_open, accepted, bound, ctorResult,
                   delResult, disposals, log, last>>

\* __del__, last statement of the try block: the closure message.
DelLog ==
    /\ pc = "del_log"
    /\ log' = Log(log, Closed(host))
    /\ delResult' = "normal"
    /\ disposals' = disposals + 1
    /\ pc' = "idle"
    /\ UNCHANGED <<fields, handles, status, accepted, bound, ctorResult, exc,
                   delCalls, last>>

\* __del__, "except Exception as exception: self.__log(str(exception))"
DelExcept ==
    /\ pc = "del_except"
    /\ IF Catches(exc)
       THEN /\ log' = Log(log, ErrorText(exc))
            /\ delResult' = "normal"
       ELSE /\ delResult' = "raised"
            /\ UNCHANGED log
    /\ disposals' = disposals + 1
    /\ pc' = "idle"
    /\ UNCHANGED <<fields, handles, status, accepted, bound, ctorResult, exc,
                   delCalls, last>>

\* ------------------------------------------------------- public operations
\* The caller holds the object only if __init__ returned.
CallerHoldsSession == pc = "idle" /\ ctorResult = "ok"

Call(op, n, collab, result) ==
    [op |-> op, calls |-> n, collab |-> collab, result |-> result,
     afterDispose |-> (disposals >= 1), tick |-> 1 - last.tick]

\* A variant of get that calls the collaborator again after a failure.
Get_Retry ==
    /\ CallerHoldsSession
    /\ \E o1 \in DownloadOutcomes, o2 \in DownloadOutcomes :
         last' = IF o1 = "ok" THEN Call("get", 1, o1, o1)
                 ELSE Call("get", 2, o2, o2)
    /\ UNCHANGED <<fields, handles, status, pc, accepted, bound, ctorResult,
                   exc, delResult, delCalls, disposals, log>>

\* get: self.scp_client.get(remote_path, local_path, recursive)
Get ==
    /\ CallerHoldsSession
    /\ \E o \in DownloadOutcomes : last' = Call("get", 1, o, o)
    /\ UNCHANGED <<fields, handles, status, pc, accepted, bound, ctorResult,
                   exc, delResult, delCalls, disposals, log>>

\* put: self.scp_client.put(local_paths, remote_path, recursive)
Put ==
    /\ CallerHoldsSession
    /\ \E o \in UploadOutcomes : last' = Call("put", 1, o, o)
    /\ UNCHANGED <<fields, handles, status, pc, accepted, bound, ctorResult,
                   exc, delResult, delCalls, disposals, log>>

\* A variant of execute that reconnects when the transport is closed.
Execute_Reconnect ==
    /\ CallerHoldsSession
    /\ IF ssh_open
       THEN /\ \E o \in ExecOutcomes : last' = Call("execute", 1, o, o)
            /\ UNCHANGED ssh_open
       ELSE /\ ssh_open' = TRUE
            /\ last' = Call("execute", 1, "ok", "ok")
    /\ UNCHANGED <<fields, handles, scp_open, pc, accepted, bound, ctorResult,
                   exc, delResult, delCalls, disposals, log>>

\* execute: return self.ssh_client.exec_command(command=..., timeout=...)
Execute ==
    /\ CallerHoldsSession
    /\ \E o \in ExecOutcomes : last' = Call("execute", 1, o, o)
    /\ UNCHANGED <<fields, handles, status, pc, accepted, bound, ctorResult,
                   exc, delResult, delCalls, disposals, log>>

Next ==
    \/ InitConnect
    \/ InitBind
    \/ InitLog
    \/ DelCloseTransport
    \/ DelCloseCopy
    \/ DelLog
    \/ DelExcept
    \/ Get
    \/ Put
    \/ Execute

Spec == Init /\ [][Next]_vars

\* ------------------------------------------------------------------ types
TypeOK ==
    /\ host \in Hosts /\ port \in Ports
    /\ user \in Users /\ password \in Passwords
    /\ ssh_client \in {"None", "obj"} /\ scp_client \in {"None", "obj"}
    /\ ssh_open \in BOOLEAN /\ scp_open \in BOOLEAN
    /\ pc \in {"connect", "bind", "log", "idle", "del_scp", "del_log",
               "del_except"}
    /\ accepted \in {"pending", "yes", "no"}
    /\ bound \in {"pending", "yes", "no"}
    /\ ctorResult \in {"none", "ok", "ConnectionError"}
    /\ exc \in ExceptionClasses \cup {"none"}
    /\ delResult \in {"none", "normal", "raised"}
    /\ disposals \in 0..MaxDisposals
    /\ Len(delCalls) <= 2

\* ---------------------------------------------------------------- helpers
\* __init__ has delivered its result to the caller.
CtorFinished == ctorResult # "none"

\* No __del__ is running and at least one has completed.
DisposedIdle == pc = "idle" /\ disposals >= 1

\* The running / last __del__ invoked close() on the named collaborator.
Called(name) == \E i \in 1..Len(delCalls) : delCalls[i].call = name

CallIndex(name) == CHOOSE i \in 1..Len(delCalls) : delCalls[i].call = name

\* The step is a get, put or execute call.
IsPublicCall == last'.tick # last.tick

NumLifecycleEvents == (IF ctorResult = "ok" THEN 1 ELSE 0) + disposals

SuccessRecords == {i \in 1..Len(log) : log[i].kind = "established"}

\* ------------------------------------------------------------------- C1
\* C1 (as claimed): when connect succeeded and the copy-channel bind then
\* failed, the transport is closed at the moment the constructor's failure
\* reaches the caller.
C1_TransportClosedWhenBindFails ==
    (pc = "idle" /\ ctorResult = "ConnectionError" /\ bound = "no"
       /\ disposals = 0)
      => ~ssh_open

\* ------------------------------------------------------------------- C2
\* C2 (as claimed): construction succeeds if and only if connect accepted
\* the credentials; when it did not, ConnectionError reaches the caller, no
\* copy channel is bound, no success record is logged and nothing is open.
C2_SucceedsIffAccepted ==
    CtorFinished =>
      /\ (ctorResult = "ok") <=> (accepted = "yes")
      /\ accepted = "no" =>
           /\ ctorResult = "ConnectionError"
           /\ scp_client = "None" /\ bound = "pending"
           /\ SuccessRecords = {}
           /\ ~ssh_open /\ ~scp_open

\* C2 (amended): construction succeeds if and only if connect accepted the
\* credentials and the copy-channel bind succeeded; when connect did not
\* accept, ConnectionError reaches the caller, no copy channel is bound, no
\* success record is logged and nothing is open.
C2_SucceedsIffAcceptedAndBound ==
    CtorFinished =>
      /\ (ctorResult = "ok") <=> (accepted = "yes" /\ bound = "yes")
      /\ accepted = "no" =>
           /\ ctorResult = "ConnectionError"
           /\ scp_client = "None" /\ bound = "pending"
           /\ SuccessRecords = {}
           /\ ~ssh_open /\ ~scp_open

C2_Witness ==
    /\ pc = "idle" /\ accepted = "no" /\ ctorResult = "ConnectionError"
    /\ disposals = 0

\* ------------------------------------------------------------------- C3
\* C3: __del__ never raises to its caller, whatever the session state and
\* whichever close() call raises; an error raised in the try block is
\* caught and its text is the last record logged.
C3_DisposalNeverRaises ==
    /\ delResult # "raised"
    /\ DisposedIdle =>
         /\ delResult = "normal"
         /\ exc # "none" => log[Len(log)] = ErrorText(exc)

C3_Witness ==
    /\ DisposedIdle /\ disposals >= 2 /\ ctorResult = "ok"
    /\ exc = "SCPException" /\ delResult = "normal"

\* ------------------------------------------------------------------- C4
\* C4 (as claimed): in a disposal of a connected session that made both
\* close() calls, the copy channel is closed before the transport, and the
\* closure record is logged after both.
C4_CopyClosedBeforeTransport ==
    (ctorResult = "ok" /\ Called("ssh.close") /\ Called("scp.close"))
      => /\ CallIndex("scp.close") < CallIndex("ssh.close")
         /\ (DisposedIdle /\ exc = "none") => log[Len(log)] = Closed(host)

C6_BothClosedAtDisposal ==
    (DisposedIdle /\ ctorResult = "ok")
      => Called("ssh.close") /\ Called("scp.close")

\* ------------------------------------------------------------------- C7
\* C7 (as claimed): in every state the copy channel is open only if the
\* transport is open.
C7_CopyOpenImpliesTransportOpen == scp_open => ssh_open

\* ------------------------------------------------------------------- C8
\* C8: get, put and execute call their collaborator exactly once, deliver
\* its outcome unchanged to the caller, and a failed call leaves the two
\* handles and the open/closed status of both resources unchanged.
C8_SingleDelegation ==
    [][IsPublicCall =>
         /\ last'.op \in {"get", "put", "execute"}
         /\ last'.calls = 1
         /\ last'.result = last'.collab
         /\ last'.result # "ok" => UNCHANGED <<handles, status>>]_vars

C8_Witness ==
    /\ last.op = "get" /\ last.result = "TransferError"
    /\ ~last.afterDispose /\ ssh_open /\ scp_open

C10_OneRecordPerEvent ==
    pc = "idle" =>
      /\ Len(log) = NumLifecycleEvents
      /\ ctorResult = "ok" => log[1] = Established(host, port)
      /\ ctorResult # "ok" => SuccessRecords = {}

\* C10 (amended): every lifecycle event emits exactly one log entry made of
\* two logger records, the source tag followed by the message: a successful
\* construction logs the message with host and port, each disposal logs
\* either the closure message or the text of the caught error, and a failed
\* construction logs no success message.
C10_OneEntryPerEvent ==
    pc = "idle" =>
      /\ Len(log) = 2 * NumLifecycleEvents
      /\ \A i \in 1..Len(log) : (i % 2 = 1) <=> (log[i] = SourceTag)
      /\ ctorResult = "ok" =>
           /\ log[2] = Established(host, port)
           /\ SuccessRecords = {2}
      /\ ctorResult # "ok" => SuccessRecords = {}
      /\ \A i \in 1..Len(log) :
           (i % 2 = 0 /\ i \notin SuccessRecords)
             => \/ log[i] = Closed(host)
                \/ \E e \in ExceptionClasses : log[i] = ErrorText(e)

C10_Witness ==
    /\ DisposedIdle /\ ctorResult = "ok" /\ disposals >= 2
    /\ log[4] = Closed(host) /\ log[6].kind = "error"

====
